---- MODULE Spec2Model ----
(***************************************************************************)
(* Model of the skyeye transmission parser (pkg/parser/parser.go) and of   *)
(* the altitude STACKS helper (pkg/brevity/altitude.go).                   *)
(*                                                                         *)
(* A Go string is modelled as a sequence of one-character strings, so that *)
(* strings.HasSuffix, strings.TrimSuffix, bufio.ScanWords and the          *)
(* character loop of parseCallsign work on characters as the code does.    *)
(* The parser model starts from the sanitized transmission: sanitize calls *)
(* an external library (numwords) and is not modelled.                     *)
(***************************************************************************)
EXTENDS Integers, Sequences, FiniteSets, TLC

VARIABLES
    gci,        \* parser.callsign, the configured callsign of the GCI
    tx,         \* the sanitized transmission Parse works on
    scanner,    \* the bufio.Scanner of Parse: its words, position and Text()
    wakeOk,     \* Parse's local: the ok of parseWakeWord (line 66)
    segment,    \* Parse's local: the text accumulated by the trigger scan
    callsign,   \* Parse's local: the callsign decoded before the trigger
    rWord,      \* Parse's local: the request word matched
    pc,         \* where Parse is: "wake", "scan", "dispatch", "done"
    ir,         \* the first return value of Parse
    ok,         \* the second return value of Parse
    csIn,       \* argument of a direct parseCallsign call
    csOut,      \* what that call returned
    csCalled,   \* whether that call has returned
    alts,       \* the caller's altitude slice handed to Stacks
    given,      \* the values the caller's slice held before the call
    stacks,     \* what Stacks returned
    called      \* whether Stacks has returned

parseVars == <<gci, tx, scanner, wakeOk, segment, callsign, rWord, pc, ir, ok>>
callsignVars == <<csIn, csOut, csCalled>>
stackVars == <<alts, given, stacks, called>>
vars == <<parseVars, callsignVars, stackVars>>

-----------------------------------------------------------------------------
(* Bounds of the model *)

MaxCallsignTokens == 2   \* words between the wake word and the trigger
MaxTailTokens == 3       \* words after the trigger
MaxSegmentTokens == 4    \* words of a segment given to parseCallsign directly
MaxAltitudes == 3        \* altitudes given to Stacks

-----------------------------------------------------------------------------
(* Strings *)

SP == " "
EmptyString == << >>

HasSuffix(s, suffix) ==
    /\ Len(s) >= Len(suffix)
    /\ SubSeq(s, Len(s) - Len(suffix) + 1, Len(s)) = suffix

TrimSuffix(s, suffix) ==
    IF HasSuffix(s, suffix) THEN SubSeq(s, 1, Len(s) - Len(suffix)) ELSE s

\* bufio.ScanWords over a whole string: its space-separated words, in order
RECURSIVE WordsFrom(_, _, _)
WordsFrom(s, i, word) ==
    IF i > Len(s)
    THEN IF word = EmptyString THEN << >> ELSE <<word>>
    ELSE IF s[i] = SP
         THEN IF word = EmptyString
              THEN WordsFrom(s, i + 1, EmptyString)
              ELSE <<word>> \o WordsFrom(s, i + 1, EmptyString)
         ELSE WordsFrom(s, i + 1, Append(word, s[i]))

ScanWords(s) == WordsFrom(s, 1, EmptyString)

\* the words joined by single spaces (how a transmission is written down)
RECURSIVE JoinWords(_)
JoinWords(ws) ==
    IF ws = << >> THEN EmptyString
    ELSE IF Len(ws) = 1 THEN ws[1]
    ELSE ws[1] \o <<SP>> \o JoinWords(Tail(ws))

-----------------------------------------------------------------------------
(* The scanner *)

NewScanner(s) == [words |-> ScanWords(s), pos |-> 0, text |-> EmptyString]

\* scanner.Scan(): advance to the next word; false at the end of the input
Scan(sc) ==
    IF sc.pos < Len(sc.words)
    THEN [ok |-> TRUE,
          sc |-> [sc EXCEPT !.pos = sc.pos + 1, !.text = sc.words[sc.pos + 1]]]
    ELSE [ok |-> FALSE,
          sc |-> [sc EXCEPT !.pos = Len(sc.words), !.text = EmptyString]]

\* the words Scan has not returned yet
Unread(sc) == SubSeq(sc.words, sc.pos + 1, Len(sc.words))

-----------------------------------------------------------------------------
(* Vocabulary *)

anyface == <<"a", "n", "y", "f", "a", "c", "e">>

alphaCheck == <<"a", "l", "p", "h", "a", " ", "c", "h", "e", "c", "k">>
bogeyDope == <<"b", "o", "g", "e", "y", " ", "d", "o", "p", "e">>
declare == <<"d", "e", "c", "l", "a", "r", "e">>
picture == <<"p", "i", "c", "t", "u", "r", "e">>
radioCheck == <<"r", "a", "d", "i", "o", " ", "c", "h", "e", "c", "k">>
spiked == <<"s", "p", "i", "k", "e", "d">>
snaplock == <<"s", "n", "a", "p", "l", "o", "c", "k">>
NoRequestWord == EmptyString

requestWordsWithCheck ==
    <<<<"c", "h", "e", "c", "k">>, alphaCheck, bogeyDope, declare, picture,
      radioCheck, spiked, snaplock>>

requestWords ==
    <<alphaCheck, bogeyDope, declare, picture, radioCheck, spiked, snaplock>>

numberWords ==
    { <<<<"0">>, 0>>, <<<<"z", "e", "r", "o">>, 0>>, <<<<"o">>, 0>>,
      <<<<"o", "h">>, 0>>,
      <<<<"1">>, 1>>, <<<<"o", "n", "e">>, 1>>, <<<<"w", "u", "n">>, 1>>,
      <<<<"2">>, 2>>, <<<<"t", "w", "o">>, 2>>,
      <<<<"3">>, 3>>, <<<<"t", "h", "r", "e", "e">>, 3>>,
      <<<<"t", "r", "e", "e">>, 3>>,
      <<<<"4">>, 4>>, <<<<"f", "o", "u", "r">>, 4>>,
      <<<<"f", "o", "w", "e", "r">>, 4>>,
      <<<<"5">>, 5>>, <<<<"f", "i", "v", "e">>, 5>>,
      <<<<"f", "i", "f", "e">>, 5>>,
      <<<<"6">>, 6>>, <<<<"s", "i", "x">>, 6>>,
      <<<<"7">>, 7>>, <<<<"s", "e", "v", "e", "n">>, 7>>,
      <<<<"8">>, 8>>, <<<<"e", "i", "g", "h", "t">>, 8>>,
      <<<<"a", "i", "t">>, 8>>,
      <<<<"9">>, 9>>, <<<<"n", "i", "n", "e">>, 9>>,
      <<<<"n", "i", "n", "e", "r">>, 9>> }

IsNumberWord(w) == \E e \in numberWords : e[1] = w
NumberOf(w) == (CHOOSE e \in numberWords : e[1] = w)[2]

\* fmt's %d of a single digit
DigitChars == <<"0", "1", "2", "3", "4", "5", "6", "7", "8", "9">>
FormatDigit(d) == DigitChars[d + 1]

-----------------------------------------------------------------------------
(* Callsign decoding *)

appendNumber(cs, number) ==
    IF IsNumberWord(number)
    THEN [callsign |-> cs \o <<SP, FormatDigit(NumberOf(number))>>, ok |-> TRUE]
    ELSE [callsign |-> cs, ok |-> FALSE]

RECURSIVE CharLoopSkipping(_, _, _)
CharLoopSkipping(word, i, acc) ==
    IF i > Len(word) THEN acc
    ELSE LET r == appendNumber(acc.callsign, <<word[i]>>)
         IN IF r.ok
            THEN CharLoopSkipping(word, i + 1,
                                  [acc EXCEPT !.callsign = r.callsign, !.isValid = TRUE])
            ELSE CharLoopSkipping(word, i + 1, acc)

\* the loop over the characters of a word that is not a number word;
\* stop is set when a character does not decode and parseCallsign returns
RECURSIVE CharLoop(_, _, _)
CharLoop(word, i, acc) ==
    IF i > Len(word) THEN acc
    ELSE LET r == appendNumber(acc.callsign, <<word[i]>>)
         IN IF r.ok
            THEN CharLoop(word, i + 1,
                          [acc EXCEPT !.callsign = r.callsign, !.isValid = TRUE])
            ELSE [acc EXCEPT !.stop = TRUE]

\* the loop over the words after the first
RECURSIVE TokenLoop(_, _, _)
TokenLoop(words, k, acc) ==
    IF k > Len(words) \/ acc.stop THEN acc
    ELSE LET r == appendNumber(acc.callsign, words[k])
         IN IF r.ok
            THEN TokenLoop(words, k + 1,
                           [acc EXCEPT !.callsign = r.callsign, !.isValid = TRUE])
            ELSE TokenLoop(words, k + 1, CharLoop(words[k], 1, acc))

FirstTokenAlwaysValid(firstToken) ==
    LET r == appendNumber(EmptyString, firstToken)
    IN IF r.ok
       THEN [callsign |-> r.callsign, isValid |-> TRUE, stop |-> FALSE]
       ELSE [callsign |-> firstToken, isValid |-> TRUE, stop |-> FALSE]

\* lines 178-187
FirstToken(firstToken) ==
    LET r == appendNumber(EmptyString, firstToken)
    IN IF r.ok
       THEN [callsign |-> r.callsign, isValid |-> TRUE, stop |-> FALSE]
       ELSE [callsign |-> firstToken, isValid |-> FALSE, stop |-> FALSE]

parseCallsign(s) ==
    LET words == ScanWords(s)
    IN IF words = << >>
       THEN [callsign |-> EmptyString, isValid |-> FALSE]
       ELSE LET acc == TokenLoop(words, 2, FirstToken(words[1]))
            IN [callsign |-> acc.callsign, isValid |-> acc.isValid]

-----------------------------------------------------------------------------
(* Requests *)

Nil == [kind |-> "nil"]
Request(kind, cs) == [kind |-> kind, callsign |-> cs]
SpikedRequest(cs, bearing) == [kind |-> "spiked", callsign |-> cs, bearing |-> bearing]

\* The bearing-report parser: the words left in the scanner are exactly three
\* digit words, composed into degrees in [0, 360).
parseSpiked(cs, sc) ==
    LET rest == Unread(sc)
    IN IF /\ Len(rest) = 3
          /\ \A i \in 1..3 : IsNumberWord(rest[i])
          /\ 100 * NumberOf(rest[1]) + 10 * NumberOf(rest[2]) + NumberOf(rest[3]) < 360
       THEN {[ir |-> SpikedRequest(cs, 100 * NumberOf(rest[1]) + 10 * NumberOf(rest[2])
                                        + NumberOf(rest[3])),
              ok |-> TRUE]}
       ELSE {[ir |-> Nil, ok |-> FALSE]}

\* The parsers of the requests whose grammar lies outside this development:
\* each either fails or returns its request carrying the callsign.
parseOther(kind, cs, sc) ==
    {[ir |-> Nil, ok |-> FALSE], [ir |-> Request(kind, cs), ok |-> TRUE]}

-----------------------------------------------------------------------------
(* Parse *)

parseWakeWordAnyfaceOnly(p, sc) ==
    LET r == Scan(sc)
    IN IF ~r.ok THEN [text |-> EmptyString, ok |-> FALSE, sc |-> r.sc]
       ELSE IF ~(r.sc.text = anyface)
            THEN [text |-> EmptyString, ok |-> FALSE, sc |-> r.sc]
            ELSE [text |-> r.sc.text, ok |-> TRUE, sc |-> r.sc]

parseWakeWord(p, sc) ==
    LET r == Scan(sc)
    IN IF ~r.ok THEN [text |-> EmptyString, ok |-> FALSE, sc |-> r.sc]
       ELSE IF ~(r.sc.text = p \/ r.sc.text = anyface)
            THEN [text |-> EmptyString, ok |-> FALSE, sc |-> r.sc]
            ELSE [text |-> r.sc.text, ok |-> TRUE, sc |-> r.sc]

\* the request words that are a suffix of the text, as indexes of requestWords
Matches(text) == {i \in 1..Len(requestWords) : HasSuffix(text, requestWords[i])}

\* the inner loop of the trigger scan: the first request word, in the order of
\* requestWords, that is a suffix of the text; 0 when there is none
FirstMatch(text) ==
    IF Matches(text) = {} THEN 0
    ELSE CHOOSE i \in Matches(text) : \A j \in Matches(text) : i <= j

Return(value, flag) ==
    /\ ir' = value
    /\ ok' = flag
    /\ pc' = "done"

\* lines 66-69
WakeWord ==
    /\ pc = "wake"
    /\ LET w == parseWakeWord(gci, scanner)
       IN /\ scanner' = w.sc
          /\ wakeOk' = w.ok
          /\ IF ~w.ok
             THEN Return(Nil, FALSE)
             ELSE /\ pc' = "scan"
                  /\ UNCHANGED <<ir, ok>>
    /\ UNCHANGED <<gci, tx, segment, callsign, rWord, callsignVars, stackVars>>

\* one pass of the loop of lines 75-97
ScanTrigger ==
    /\ pc = "scan"
    /\ LET r == Scan(scanner)
           text == segment \o <<SP>> \o r.sc.text
           m == FirstMatch(text)
           word == requestWords[m]
           c == parseCallsign(TrimSuffix(text, word))
       IN IF ~r.ok
          THEN /\ Return(Nil, FALSE)
               /\ scanner' = r.sc
               /\ UNCHANGED <<segment, callsign, rWord>>
          ELSE IF m = 0
          THEN /\ segment' = text
               /\ scanner' = r.sc
               /\ pc' = IF callsign = EmptyString THEN "scan" ELSE "dispatch"
               /\ UNCHANGED <<callsign, rWord, ir, ok>>
          ELSE IF ~c.isValid
          THEN /\ Return(Nil, FALSE)
               /\ segment' = text
               /\ scanner' = r.sc
               /\ rWord' = word
               /\ callsign' = c.callsign
          ELSE /\ segment' = text
               /\ rWord' = word
               /\ callsign' = c.callsign
               /\ scanner' = Scan(r.sc).sc
               /\ pc' = IF c.callsign = EmptyString THEN "scan" ELSE "dispatch"
               /\ UNCHANGED <<ir, ok>>
    /\ UNCHANGED <<gci, tx, wakeOk, callsignVars, stackVars>>

\* the switch of lines 100-118
Dispatch ==
    /\ pc = "dispatch"
    /\ \E r \in CASE rWord = alphaCheck -> {[ir |-> Request("alphaCheck", callsign), ok |-> TRUE]}
                  [] rWord = bogeyDope -> parseOther("bogeyDope", callsign, scanner)
                  [] rWord = declare -> parseOther("declare", callsign, scanner)
                  [] rWord = picture -> parseOther("picture", callsign, scanner)
                  [] rWord = radioCheck -> {[ir |-> Request("radioCheck", callsign), ok |-> TRUE]}
                  [] rWord = spiked -> parseSpiked(callsign, scanner)
                  [] rWord = snaplock -> parseOther("snaplock", callsign, scanner)
                  [] OTHER -> {[ir |-> Nil, ok |-> FALSE]} :
          Return(r.ir, r.ok)
    /\ UNCHANGED <<gci, tx, scanner, wakeOk, segment, callsign, rWord,
                   callsignVars, stackVars>>

\* the transmissions Parse is given: an optional first word, the words of a
\* callsign, an optional request phrase, and the words after it
skyeye == <<"s", "k", "y", "e", "y", "e">>
eagle == <<"e", "a", "g", "l", "e">>
spike == <<"s", "p", "i", "k", "e">>

SeqsUpTo(S, n) == UNION {[1..k -> S] : k \in 0..n}

FirstWords == {<< >>, <<anyface>>, <<skyeye>>}
CallsignWords == {eagle, <<"1">>, <<"1", "4">>}
radio == <<"r", "a", "d", "i", "o">>
check == <<"c", "h", "e", "c", "k">>
bearing == <<"b", "e", "a", "r", "i", "n", "g">>
RequestPhrases ==
    {<< >>, <<spiked>>, <<spiked, bearing>>, <<spike>>, <<radio, check>>, <<declare>>}
TailWords == {<<"0">>, <<"2">>, <<"7">>}

IdleCallsign == /\ csIn = EmptyString
                /\ csOut = [callsign |-> EmptyString, isValid |-> FALSE]
                /\ csCalled = FALSE
IdleStacks == /\ alts = << >>
              /\ given = << >>
              /\ stacks = << >>
              /\ called = FALSE
IdleParse == /\ gci = EmptyString
             /\ tx = EmptyString
             /\ scanner = NewScanner(EmptyString)
             /\ wakeOk = FALSE
             /\ segment = EmptyString
             /\ callsign = EmptyString
             /\ rWord = NoRequestWord
             /\ pc = "done"
             /\ ir = Nil
             /\ ok = FALSE

Init ==
    /\ gci \in {EmptyString, skyeye}
    /\ \E w \in FirstWords, c \in SeqsUpTo(CallsignWords, MaxCallsignTokens),
          r \in RequestPhrases, t \in SeqsUpTo(TailWords, MaxTailTokens) :
          tx = JoinWords(w \o c \o r \o t)
    /\ scanner = NewScanner(tx)
    /\ wakeOk = FALSE
    /\ segment = EmptyString
    /\ callsign = EmptyString
    /\ rWord = NoRequestWord
    /\ pc = "wake"
    /\ ir = Nil
    /\ ok = FALSE
    /\ IdleCallsign
    /\ IdleStacks

Next ==
    \/ WakeWord
    \/ ScanTrigger
    \/ Dispatch

Spec == Init /\ [][Next]_vars

-----------------------------------------------------------------------------
(* parseCallsign called on its own *)

foo == <<"f", "o", "o">>
SegmentWords ==
    {eagle, <<"1">>, <<"4">>, <<"1", "4">>, <<"n", "i", "n", "e", "r">>, foo, <<"4", "x">>}
Segments == {JoinWords(ws) : ws \in SeqsUpTo(SegmentWords, MaxSegmentTokens)}

CallsignInit ==
    /\ csIn \in Segments
    /\ csOut = [callsign |-> EmptyString, isValid |-> FALSE]
    /\ csCalled = FALSE
    /\ IdleParse
    /\ IdleStacks

CallParseCallsign ==
    /\ ~csCalled
    /\ csOut' = parseCallsign(csIn)
    /\ csCalled' = TRUE
    /\ UNCHANGED <<csIn, parseVars, stackVars>>

CallsignNext == CallParseCallsign

CallsignSpec == CallsignInit /\ [][CallsignNext]_vars

-----------------------------------------------------------------------------
(* Stacks. Altitudes are whole feet. *)

Band == 1000
StackSeparation == 9900

\* math.Round(feet / 1000) * 1000: halves round away from zero
RoundToBand(feet) ==
    IF feet >= 0
    THEN ((feet + Band \div 2) \div Band) * Band
    ELSE -((((-feet) + Band \div 2) \div Band) * Band)

RoundAllSkipped(a) == a

\* the loop of lines 18-20
RoundAll(a) == [i \in 1..Len(a) |-> RoundToBand(a[i])]

RECURSIVE Insert(_, _)
Insert(x, sorted) ==
    IF sorted = << >> THEN <<x>>
    ELSE IF x <= Head(sorted) THEN <<x>> \o sorted
    ELSE <<Head(sorted)>> \o Insert(x, Tail(sorted))

\* slices.SortFunc with the comparison of lines 22-30: ascending
RECURSIVE SortFunc(_)
SortFunc(a) ==
    IF a = << >> THEN << >> ELSE Insert(Head(a), SortFunc(Tail(a)))

RECURSIVE StackLoopNoCount(_, _, _)
StackLoopNoCount(a, i, st) ==
    IF i < 1 THEN st
    ELSE IF Len(st) = 0
         THEN StackLoopNoCount(a, i - 1, Append(st, [Altitude |-> a[i], Count |-> 1]))
         ELSE IF a[i] <= st[Len(st)].Altitude - StackSeparation
              THEN StackLoopNoCount(a, i - 1, Append(st, [Altitude |-> a[i], Count |-> 1]))
              ELSE StackLoopNoCount(a, i - 1, st)

\* the loop of lines 33-45, for the indexes i down to 1 of the sorted slice
RECURSIVE StackLoop(_, _, _)
StackLoop(a, i, st) ==
    IF i < 1 THEN st
    ELSE IF Len(st) = 0
         THEN StackLoop(a, i - 1, Append(st, [Altitude |-> a[i], Count |-> 1]))
         ELSE LET j == Len(st)
                  highest == st[j].Altitude
              IN IF a[i] <= highest - StackSeparation
                 THEN StackLoop(a, i - 1, Append(st, [Altitude |-> a[i], Count |-> 1]))
                 ELSE StackLoop(a, i - 1, [st EXCEPT ![j].Count = st[j].Count + 1])

\* Stacks works on the slice it is given: a is that slice after the call
Stacks(a) ==
    LET sorted == SortFunc(RoundAll(a))
    IN [a |-> sorted, stacks |-> StackLoop(sorted, Len(sorted), << >>)]

Altitudes == {-600, 9600, 10400, 15100, 24400, 25000}

StacksInit ==
    /\ alts \in SeqsUpTo(Altitudes, MaxAltitudes)
    /\ given = alts
    /\ stacks = << >>
    /\ called = FALSE
    /\ IdleParse
    /\ IdleCallsign

\* the caller passes its slice: Stacks(alts...)
CallStacks ==
    /\ ~called
    /\ alts' = Stacks(alts).a
    /\ stacks' = Stacks(alts).stacks
    /\ called' = TRUE
    /\ UNCHANGED <<given, parseVars, callsignVars>>

StacksNext == CallStacks

StacksSpec == StacksInit /\ [][StacksNext]_vars

-----------------------------------------------------------------------------
(* Properties of Parse *)

\* the words of the transmission (the scanner holds ScanWords(tx) throughout)
words == scanner.words
IsSingleDigit(w) == Len(w) = 1 /\ \E d \in 1..Len(DigitChars) : w[1] = DigitChars[d]
Degrees(a, b, c) == 100 * NumberOf(a) + 10 * NumberOf(b) + NumberOf(c)

\* a decoded digit of a callsign: a space followed by a digit character
HasDecodedDigit(cs) ==
    \E i \in 1..(Len(cs) - 1) : cs[i] = SP /\ IsSingleDigit(<<cs[i + 1]>>)

\* the transmission is: first word, a callsign that decodes to a digit, the
\* trigger, three single digits composing a value below 360
IsBearingReport(first, trigger) ==
    /\ Len(words) >= 5
    /\ words[1] = first
    /\ words[Len(words) - 3] = trigger
    /\ parseCallsign(JoinWords(SubSeq(words, 2, Len(words) - 4))).isValid
    /\ \A i \in (Len(words) - 2)..Len(words) : IsSingleDigit(words[i])
    /\ Degrees(words[Len(words) - 2], words[Len(words) - 1], words[Len(words)]) < 360

ExpectedBearingReport ==
    SpikedRequest(parseCallsign(JoinWords(SubSeq(words, 2, Len(words) - 4))).callsign,
                  Degrees(words[Len(words) - 2], words[Len(words) - 1], words[Len(words)]))

C2_ShortFormSameParser ==
    (pc = "done" /\ (IsBearingReport(anyface, spike) \/ IsBearingReport(gci, spike)))
        => (rWord = spiked /\ ok = TRUE /\ ir = ExpectedBearingReport)

FirstIsWakeWord == words # << >> /\ (words[1] = gci \/ words[1] = anyface)

\* C3: Parse passes the wake word exactly when the first word is the GCI
\* callsign or anyface; otherwise (no word at all included) it returns with
\* ok = false; and whenever ok is false the request returned is nil.
C3_WakeWord ==
    /\ ~ok => ir = Nil
    /\ pc # "wake" =>
          /\ wakeOk <=> FirstIsWakeWord
          /\ ~FirstIsWakeWord => (pc = "done" /\ ok = FALSE /\ ir = Nil)
          /\ ~wakeOk => (segment = EmptyString /\ rWord = NoRequestWord)
          /\ (wakeOk /\ pc = "done" /\ Len(words) >= 2) => segment # EmptyString

C3_Witness ==
    /\ pc = "done"
    /\ ~wakeOk
    /\ ~FirstIsWakeWord
    /\ Len(words) >= 3
    /\ ok = FALSE
    /\ ir = Nil

\* C9: parseCallsign is valid exactly when a digit was appended; Parse returns
\* false at a trigger whose callsign segment is not valid; so a request
\* returned with ok = true carries a callsign with a decoded digit, and
\* "anyface radio check" and "anyface eagle spiked 2 7 0" return ok = false.
C9_CallsignNeedsDigit ==
    /\ (pc = "done" /\ ok) => HasDecodedDigit(ir.callsign)
    /\ rWord # NoRequestWord =>
          LET c == parseCallsign(TrimSuffix(segment, rWord))
          IN /\ c.isValid <=> HasDecodedDigit(c.callsign)
             /\ ~c.isValid => (pc = "done" /\ ~ok /\ ir = Nil)
    /\ (pc = "done" /\ tx = JoinWords(<<anyface, radio, check>>)) => ~ok
    /\ (pc = "done" /\ tx = JoinWords(<<anyface, eagle, spiked, <<"2">>, <<"7">>, <<"0">>>>))
          => ~ok

C9_Witness ==
    /\ pc = "done"
    /\ ok
    /\ ir = Request("radioCheck", JoinWords(<<eagle, <<"1">>, <<"4">>>>))

\* C10: no request word is a suffix of another, so at most one request word
\* is a suffix of the text accumulated by the trigger scan, and the one the
\* scan picks does not depend on the order of the vocabulary.
C10_NoSuffixOverlap ==
    /\ \A i, j \in 1..Len(requestWords) :
          i # j => ~HasSuffix(requestWords[i], requestWords[j])
    /\ Cardinality(Matches(segment)) <= 1
    /\ \A i \in Matches(segment) : i = FirstMatch(segment)
    /\ rWord # NoRequestWord => Matches(segment) = {FirstMatch(segment)}
                                /\ rWord = requestWords[FirstMatch(segment)]

C10_Witness ==
    /\ rWord = radioCheck
    /\ segment = <<SP>> \o JoinWords(<<eagle, <<"1">>, radio, check>>)

-----------------------------------------------------------------------------
(* Properties of parseCallsign *)

csWords == ScanWords(csIn)
AllDigits(w) == \A i \in 1..Len(w) : IsSingleDigit(<<w[i]>>)
IsGlued(w) == Len(w) >= 2 /\ AllDigits(w)
CharDecodes(ch) == IsNumberWord(<<ch>>)
Decodable(w) == IsNumberWord(w) \/ \A i \in 1..Len(w) : CharDecodes(w[i])

\* a glued word written as its digits, one word each
RECURSIVE SpreadGlued(_)
SpreadGlued(ws) ==
    IF ws = << >> THEN << >>
    ELSE (IF IsGlued(Head(ws))
          THEN [i \in 1..Len(Head(ws)) |-> <<Head(ws)[i]>>]
          ELSE <<Head(ws)>>) \o SpreadGlued(Tail(ws))

\* C7: a glued multi-digit word of the callsign segment decodes to its digits,
\* one by one, space-delimited and in order, and makes the callsign valid: a
\* segment decodes as the same segment with its glued words written digit by
\* digit, wherever the glued word stands.
C7_GluedDigitsDecoded ==
    (/\ csCalled
     /\ \E k \in 1..Len(csWords) : IsGlued(csWords[k])
     /\ \A m \in 2..Len(csWords) : Decodable(csWords[m]))
        => /\ csOut.isValid
           /\ csOut = parseCallsign(JoinWords(SpreadGlued(csWords)))

\* the first word after the first that does not decode, 0 if there is none
FirstUndecodable ==
    IF \E k \in 2..Len(csWords) : ~Decodable(csWords[k])
    THEN CHOOSE k \in 2..Len(csWords) :
            /\ ~Decodable(csWords[k])
            /\ \A m \in 2..(k - 1) : Decodable(csWords[m])
    ELSE 0

\* the characters of a word before its first character that does not decode
DecodedPrefix(w) ==
    LET n == CHOOSE n \in 0..Len(w) :
                 /\ \A i \in 1..n : CharDecodes(w[i])
                 /\ n < Len(w) => ~CharDecodes(w[n + 1])
    IN SubSeq(w, 1, n)

UpToStop ==
    LET k == FirstUndecodable
        pre == DecodedPrefix(csWords[k])
    IN SubSeq(csWords, 1, k - 1) \o (IF pre = EmptyString THEN << >> ELSE <<pre>>)

-----------------------------------------------------------------------------
(* Properties of Stacks *)

RECURSIVE SumCounts(_)
SumCounts(st) == IF st = << >> THEN 0 ELSE Head(st).Count + SumCounts(Tail(st))

\* C4: the stacks are ordered highest first and consecutive stacks differ by
\* more than 9900 feet.
C4_StacksApart ==
    called => \A j \in 1..(Len(stacks) - 1) :
                 stacks[j].Altitude - stacks[j + 1].Altitude > StackSeparation

C4_Witness ==
    /\ called
    /\ Len(stacks) = 3

\* C5: the counts of the stacks add up to the number of altitudes given; no
\* altitude gives no stack, and n equal altitudes give one stack of count n.
C5_CountsAddUp ==
    called =>
        /\ SumCounts(stacks) = Len(given)
        /\ given = << >> => stacks = << >>
        /\ (given # << >> /\ \A i \in 1..Len(given) : given[i] = given[1])
              => (Len(stacks) = 1 /\ stacks[1].Count = Len(given))

C5_Witness ==
    /\ called
    /\ Len(given) = 3
    /\ \A i \in 1..Len(given) : given[i] = given[1]
    /\ Len(stacks) = 1

\* C6: Stacks leaves the caller's altitudes as they were: the same values in
\* the same order after the call as before it.
C6_CallerSliceUnchanged ==
    called => alts = given

====
